---- MODULE Spec2Model ----
(***************************************************************************)
(* Model of the desktop front end of the AI website reader (src/app.py):   *)
(* the interaction thread of AIWebsiteReaderApp, the WorkerThread          *)
(* instances it starts and the queue of signal deliveries between them.    *)
(*                                                                         *)
(* Strings are sequences of one-character strings.  The interaction thread *)
(* is either idle (between two handlers) or inside QThread.wait(), where   *)
(* it stays until the worker referenced by self.worker_thread has left     *)
(* run(); no queued callback and no click is handled in between.  A modal  *)
(* error dialog is shown and dismissed inside the handler that opens it.   *)
(***************************************************************************)
EXTENDS Integers, Sequences, FiniteSets, TLC

VARIABLES
    api_key,         \* self.api_key; in the web front end the value of the key field
    client,          \* self.client: "none" or the key the client was built with
    current_text,    \* self.current_text
    current_title,   \* self.current_title
    current_url,     \* self.current_url
    history,         \* self.history
    history_list,    \* rows of the history list widget, top row first
    worker_thread,   \* self.worker_thread: 0 (None) or an index into workers
    selected_voice,  \* self.selected_voice
    question_input,  \* text of the question box
    model_combo,     \* current text of the model selector
    length_slider,   \* value of the length slider
    status,          \* the four status labels, by slot
    enabled,         \* enabled state of the four trigger buttons, by slot
    summarize_result,\* summary view: id of the worker whose result is shown, 0 if empty
    analyze_result,  \* answer view: id of the worker whose result is shown, 0 if empty
    extract_result,  \* extracted-text view
    audio_file_path, \* self.audio_file_path: id of the tts worker that wrote it, 0 if None
    workers,         \* every WorkerThread created so far, in creation order
    events,          \* signal emissions queued for the interaction thread
    ui,              \* position of the interaction thread
    closed,          \* the close event has been accepted
    rejected,        \* the latest handler was a trigger press that show_error rejected
    call,            \* one call of an extractor, normalisation or truncation function
    session_state,   \* st.session_state of the web front end
    expanders,       \* history rows the latest script run of the web front end rendered
    shown,           \* summary or answer the latest script run of the web front end showed
    budget           \* number of WorkerThread instances the run may create

vars == <<api_key, client, current_text, current_title, current_url, history, history_list,
          worker_thread, selected_voice, question_input, model_combo,
          length_slider, status, enabled, summarize_result, analyze_result,
          extract_result, audio_file_path, workers, events, ui, closed, rejected,
          call, session_state, expanders, shown, budget>>

\* The state of the desktop front end.
desktop == <<api_key, client, current_text, current_title, current_url, history,
             history_list, worker_thread, selected_voice, question_input, model_combo,
             length_slider, status, enabled, summarize_result, analyze_result,
             extract_result, audio_file_path, workers, events, ui, closed, rejected>>

\* The same without the credential.
desktop_but_key == <<client, current_text, current_title, current_url, history,
                     history_list, worker_thread, selected_voice, question_input,
                     model_combo, length_slider, status, enabled, summarize_result,
                     analyze_result, extract_result, audio_file_path, workers, events,
                     ui, closed, rejected>>

\* What no handler of the desktop front end touches.
offDesktop == <<call, session_state, expanders, shown, budget>>

\* What a trigger press may change besides the notification it shows.
appState == <<api_key, client, current_text, current_title, current_url, history, history_list,
              worker_thread, selected_voice, question_input, model_combo,
              length_slider, status, enabled, summarize_result, analyze_result,
              extract_result, audio_file_path, workers, events, ui, closed>>

----------------------------------------------------------------------------
\* Bounds of the model.

\* Number of WorkerThread instances created.  A press is accepted only
\* while the workers it leads to still fit: two for summarize and analyze
\* (the fetch and the completion call), one for extract and tts.
MaxWorkers == 3

\* The same where the user works with the summarize and the analyze tab
\* only, so that three tasks can run to their end.
MaxLedgerWorkers == 6

----------------------------------------------------------------------------
\* Values.

Slots == {"summarize", "analyze", "extract", "tts"}

\* Python's None, as the value of title.string for a title element without
\* a single string child; no text is equal to it.
None == <<"<None>">>

\* Stands for the fixed fallback title returned when the markup has no title.
FallbackTitle == <<"U", "n", "k", "n", "o", "w", "n">>

DefaultModel == "gpt-3.5-turbo"

Models == {"gpt-3.5-turbo", "gpt-4"}

DefaultLength == 500

Lengths == {100, 500}

DefaultVoice == "alloy"

Voices == {"alloy", "nova"}

Keys == {"", "k1"}

TypedUrls ==
    { <<>>,
      <<" ", "a">>,
      <<"h", "t", "t", "p", "s", ":", "/", "/", "a">> }

TypedQuestions == { <<>>, <<"q">> }

TypedTexts == { <<" ">>, <<"t", " ">> }

\* The pages the network may answer with.  A page is the sequence of its
\* elements in document order, each with its tag, the text it holds before
\* its first child element and the index of the element enclosing it (0 at
\* the top level); bad marks markup on which the parser raises.
PageTable ==
    << [bad |-> FALSE,
        nodes |-> << [tag |-> "title", text |-> <<"T">>, parent |-> 0],
                     [tag |-> "script", text |-> <<"x">>, parent |-> 0],
                     [tag |-> "p", parent |-> 0,
                      text |-> <<"a", " ", " ", " ", "b", "\n", " ", "c", " ">>] >>],
       [bad |-> FALSE,
        nodes |-> << [tag |-> "p", text |-> <<"d">>, parent |-> 0] >>],
       [bad |-> TRUE,
        nodes |-> << >>] >>

PageIds == 1..Len(PageTable)

NoPayload == [kind |-> "none", page |-> 0, by |-> 0]

\* The two buttons of the clear question.
Answers == {"Yes", "No"}

\* The web front end has shown no summary and no answer.
NoResult == [type |-> "none"]

\* No function call is under way.
NoCall == [fn |-> "none", arg |-> <<>>, done |-> FALSE, ret |-> <<>>]

IdleUi == [pc |-> "idle", h |-> "", slot |-> "", url |-> <<>>, query |-> <<>>, ev |-> 0]

----------------------------------------------------------------------------
\* String functions.

IsSpace(c) == c \in {" ", "\t", "\n"}

RECURSIVE lstrip(_)
lstrip(s) ==
    IF s = <<>> THEN <<>>
    ELSE IF IsSpace(Head(s)) THEN lstrip(Tail(s)) ELSE s

RECURSIVE rstrip(_)
rstrip(s) ==
    IF s = <<>> THEN <<>>
    ELSE IF IsSpace(s[Len(s)]) THEN rstrip(SubSeq(s, 1, Len(s) - 1)) ELSE s

strip(s) == rstrip(lstrip(s))

\* str.split(sep) for a one- or two-character separator: the pieces between
\* the non-overlapping occurrences of sep, scanned from the left.
RECURSIVE splitAcc(_, _, _)
splitAcc(s, sep, cur) ==
    IF s = <<>> THEN <<cur>>
    ELSE IF Len(s) >= Len(sep) /\ SubSeq(s, 1, Len(sep)) = sep
         THEN <<cur>> \o splitAcc(SubSeq(s, Len(sep) + 1, Len(s)), sep, <<>>)
         ELSE splitAcc(Tail(s), sep, Append(cur, Head(s)))

split(s, sep) == splitAcc(s, sep, <<>>)

\* str.splitlines(): like split on the newline, without the empty piece
\* after a final newline and with no piece at all for the empty string.
splitlines(s) ==
    IF s = <<>> THEN <<>>
    ELSE IF s[Len(s)] = "\n" THEN split(SubSeq(s, 1, Len(s) - 1), <<"\n">>)
         ELSE split(s, <<"\n">>)

RECURSIVE join(_, _)
join(sep, parts) ==
    IF parts = <<>> THEN <<>>
    ELSE IF Len(parts) = 1 THEN parts[1]
         ELSE parts[1] \o sep \o join(sep, Tail(parts))

RECURSIVE flatten(_)
flatten(ss) == IF ss = <<>> THEN <<>> ELSE Head(ss) \o flatten(Tail(ss))

RECURSIVE nonEmpty(_)
nonEmpty(ss) ==
    IF ss = <<>> THEN <<>>
    ELSE IF Head(ss) = <<>> THEN nonEmpty(Tail(ss))
         ELSE <<Head(ss)>> \o nonEmpty(Tail(ss))

startswith(s, p) == Len(s) >= Len(p) /\ SubSeq(s, 1, Len(p)) = p

Https == <<"h", "t", "t", "p", "s", ":", "/", "/">>

\* The scheme normalisation of the three fetch triggers.
NormalizeUrl(url) ==
    IF startswith(url, <<"h", "t", "t", "p">>) THEN url ELSE Https \o url

----------------------------------------------------------------------------
\* The extractor.

\* Element i lies in the subtree of element a.
RECURSIVE Inside(_, _, _)
Inside(nodes, i, a) == i # 0 /\ (i = a \/ Inside(nodes, nodes[i].parent, a))

\* A search that looks at the top-level elements only.
find_all_children(nodes, names) ==
    {i \in 1..Len(nodes) : nodes[i].tag \in names /\ nodes[i].parent = 0}

\* soup([...]): the elements with one of the names, at any depth.
find_all(nodes, names) == {i \in 1..Len(nodes) : nodes[i].tag \in names}

\* decompose() on each element found: the elements left in the tree.
decompose(nodes, found) ==
    {i \in 1..Len(nodes) : \A a \in found : ~Inside(nodes, i, a)}

\* soup.get_text() after the script and style elements have been removed:
\* the strings of the elements left, in document order.
get_text(nodes) ==
    LET left == decompose(nodes, find_all(nodes, {"script", "style"}))
    IN  flatten([i \in 1..Len(nodes) |-> IF i \in left THEN nodes[i].text ELSE <<>>])

\* The whitespace normalisation without the strip of each phrase.
normalize_unstripped(text) ==
    LET lines  == [i \in 1..Len(splitlines(text)) |-> strip(splitlines(text)[i])]
        chunks == flatten([i \in 1..Len(lines) |-> split(lines[i], <<" ", " ">>)])
    IN  join(<<"\n">>, nonEmpty(chunks))

normalize(text) ==
    LET lines  == [i \in 1..Len(splitlines(text)) |-> strip(splitlines(text)[i])]
        chunks == flatten([i \in 1..Len(lines) |->
                     [j \in 1..Len(split(lines[i], <<" ", " ">>)) |->
                         strip(split(lines[i], <<" ", " ">>)[j])]])
    IN  join(<<"\n">>, nonEmpty(chunks))

\* extract_text on parsed markup, and on the markup of a page of the table.
soup_text(nodes) == normalize(get_text(nodes))

\* The text and the title of each page of the table.
PageTexts == [p \in PageIds |-> soup_text(PageTable[p].nodes)]

extract_text(html) == PageTexts[html]

Children(nodes, i) == {j \in 1..Len(nodes) : nodes[j].parent = i}

\* Tag.string: the string of an element whose only child is a string, the
\* .string of an only child that is an element, None otherwise.
RECURSIVE string(_, _)
string(nodes, i) ==
    IF nodes[i].text # <<>>
    THEN IF Children(nodes, i) = {} THEN nodes[i].text ELSE None
    ELSE IF Cardinality(Children(nodes, i)) = 1
         THEN string(nodes, CHOOSE j \in Children(nodes, i) : TRUE)
         ELSE None

\* get_title on parsed markup: soup.find('title') is the first title
\* element in document order, and an element is true even when empty.
soup_title(nodes) ==
    LET titles == {i \in 1..Len(nodes) : nodes[i].tag = "title"}
    IN  IF titles = {} THEN FallbackTitle
        ELSE string(nodes, CHOOSE i \in titles : \A j \in titles : i <= j)

PageTitles == [p \in PageIds |-> soup_title(PageTable[p].nodes)]

\* A title that stays what it was.
get_title_kept(html) == current_title

get_title(html) == PageTitles[html]

----------------------------------------------------------------------------
\* Workers.

\* WorkerThread.__init__: the arguments are stored as given.  slot is the
\* task_type bound into the callbacks connected to the worker and parent the
\* worker whose callback created it (0 when a trigger press created it).
WorkerThread(task_type, url, query, content, cl, model, max_length, slot, parent) ==
    [task_type |-> task_type, url |-> url, query |-> query, content |-> content,
     client |-> cl, model |-> model, max_length |-> max_length,
     slot |-> slot, parent |-> parent,
     running |-> TRUE, quiesced |-> FALSE,
     nfinished |-> 0, nerror |-> 0, nshown |-> 0, payload |-> NoPayload]

\* The fetch worker built by the summarize, analyze and extract triggers.
FetchWorker(slot, url, query) ==
    WorkerThread("fetch", url, query, <<>>, client, DefaultModel, DefaultLength, slot, 0)

\* The phase-two worker given the text of the page fetched before.
StaleContent(text) == current_text

\* The text handed to the phase-two worker: self.current_text as just set
\* from the fetched markup.
PhaseTwoContent(text) == text

\* The summarize or analyze worker built by on_website_fetched.
PhaseTwoWorker(slot, text, ev) ==
    IF slot = "summarize"
    THEN WorkerThread("summarize", current_url, <<>>, PhaseTwoContent(text), client,
                      model_combo, length_slider, slot, ev)
    ELSE WorkerThread("analyze", current_url, question_input, PhaseTwoContent(text), client,
                      model_combo, DefaultLength, slot, ev)

\* The worker built by on_tts_clicked.
TtsWorker(text) ==
    WorkerThread("tts", <<>>, <<>>, text, client, selected_voice, DefaultLength, "tts", 0)

\* Fetch workers of the summarize and analyze slots whose callback is still
\* to come: each may yet be followed by a phase-two worker.
OpenFetches ==
    {w \in 1..Len(workers) :
        /\ workers[w].task_type = "fetch"
        /\ workers[w].slot \in {"summarize", "analyze"}
        /\ \/ workers[w].running
           \/ \E i \in 1..Len(events) : events[i].w = w}

Fits(n) == Len(workers) + Cardinality(OpenFetches) + n <= budget

Running(w) == workers[w].running

\* run() without its except clause: a raised exception leaves run().
EmissionsUncaught(raised) == IF raised THEN <<>> ELSE <<"finished">>

\* The signals run() emits: finished when the dispatched operation returns,
\* error when it raises.
Emissions(raised) == IF raised THEN <<"error">> ELSE <<"finished">>

\* What the dispatched operation can do: return a value or raise.  A fetch
\* returns the markup of some page; a completion or speech call needs a
\* client and raises on a worker whose client is None.
Outcomes(w) ==
    LET t == workers[w].task_type
        failure == {[raised |-> TRUE, payload |-> [kind |-> "error", page |-> 0, by |-> w]]}
    IN  IF t = "fetch"
        THEN failure \cup {[raised |-> FALSE,
                            payload |-> [kind |-> "page", page |-> p, by |-> w]] : p \in PageIds}
        ELSE IF workers[w].client = "none" THEN failure
        ELSE failure \cup {[raised |-> FALSE,
                            payload |-> [kind |-> IF t = "tts" THEN "audio" ELSE "text",
                                         page |-> 0, by |-> w]]}

Count(seq, x) == Cardinality({i \in 1..Len(seq) : seq[i] = x})

\* A worker that reads the selectors and the client of the window when it
\* builds its request.
RequestFromWindow(w) ==
    [url |-> workers[w].url, query |-> workers[w].query,
     content |-> workers[w].content, client |-> client,
     model |-> IF workers[w].task_type = "tts" THEN selected_voice ELSE model_combo,
     max_length |-> length_slider]

\* What the dispatched operation sends: _fetch_website, _summarize,
\* _analyze and _text_to_speech read the attributes of the worker only.
Request(w) ==
    [url |-> workers[w].url, query |-> workers[w].query,
     content |-> workers[w].content, client |-> workers[w].client,
     model |-> workers[w].model, max_length |-> workers[w].max_length]

\* WorkerThread.run on its own thread: the operation completes, its outcome
\* is emitted and the thread leaves run().  The queued emission carries,
\* besides the value emitted, the request the operation sent to get it.
run(w) ==
    /\ ~closed
    /\ Running(w)
    /\ \E o \in Outcomes(w) :
         LET sigs == Emissions(o.raised)
         IN  /\ workers' = [workers EXCEPT
                    ![w].running = FALSE,
                    ![w].payload = o.payload,
                    ![w].nfinished = @ + Count(sigs, "finished"),
                    ![w].nerror = @ + Count(sigs, "error")]
             /\ events' = events \o [i \in 1..Len(sigs) |->
                                        [w |-> w, sig |-> sigs[i], payload |-> o.payload,
                                         sent |-> Request(w)]]
    /\ UNCHANGED <<api_key, client, current_text, current_title, current_url, history, history_list,
                   worker_thread, selected_voice, question_input, model_combo,
                   length_slider, status, enabled, summarize_result, analyze_result,
                   extract_result, audio_file_path, ui, closed, rejected>>
    /\ UNCHANGED offDesktop

----------------------------------------------------------------------------
\* The interaction thread.

Idle == ui.pc = "idle" /\ ~closed

\* A trigger press that show_error rejects: nothing but the dialog.
Reject ==
    /\ rejected' = TRUE
   
    /\ UNCHANGED appState

\* The worker a handler starts once wait() has returned.
ContinuationWorker(u, text) ==
    IF u.h = "on_website_fetched" THEN PhaseTwoWorker(u.slot, text, u.ev)
    ELSE FetchWorker(u.slot, u.url, u.query)

\* "Clean up old thread if exists": quit() and wait() on self.worker_thread,
\* then the new worker is stored in self.worker_thread and started.  quit()
\* only ends an event loop, which run() never enters, so wait() returns when
\* the referenced worker has left run(); while it has not, the interaction
\* thread stays inside the handler.
CleanUpAndStart(u, text) ==
    IF worker_thread # 0 /\ Running(worker_thread)
    THEN /\ ui' = u
         /\ workers' = [workers EXCEPT ![worker_thread].quiesced = TRUE]
         /\ UNCHANGED worker_thread
    ELSE /\ ui' = IdleUi
         /\ workers' = Append(IF worker_thread = 0 THEN workers
                              ELSE [workers EXCEPT ![worker_thread].quiesced = TRUE],
                              ContinuationWorker(u, text))
         /\ worker_thread' = Len(workers) + 1

Waiting(h, slot, url, query, ev) ==
    [pc |-> "wait", h |-> h, slot |-> slot, url |-> url, query |-> query, ev |-> ev]

\* The triggers without their credential check.
KeyNeverMissing == FALSE

\* The credential gate of the summarize, analyze and tts triggers.
KeyMissing == api_key = ""

\* A trigger that stays enabled while its task runs.
TriggerLeftEnabled(slot) == enabled

\* setEnabled(False) on the trigger of a slot whose task has been accepted.
DisableTrigger(slot) == [enabled EXCEPT ![slot] = FALSE]

\* The part the three fetch triggers share once the inputs are accepted.
StartFetch(h, slot, typed, query) ==
    LET url == NormalizeUrl(strip(typed))
    IN  /\ status' = [status EXCEPT ![slot] = "loading"]
        /\ enabled' = DisableTrigger(slot)
        /\ current_url' = url
        /\ CleanUpAndStart(Waiting(h, slot, url, query, 0), current_text)
        /\ rejected' = FALSE
        /\ UNCHANGED <<api_key, client, current_text, current_title, history, history_list,
                       selected_voice, question_input, model_combo, length_slider,
                       summarize_result, analyze_result, extract_result,
                       audio_file_path, events, closed>>

on_summarize_clicked(typed) ==
    /\ Idle
    /\ enabled["summarize"]
    /\ IF KeyMissing \/ strip(typed) = <<>>
       THEN Reject
       ELSE /\ Fits(2)
            /\ StartFetch("on_summarize_clicked", "summarize", typed, <<>>)
    /\ UNCHANGED offDesktop

on_analyze_clicked(typed) ==
    /\ Idle
    /\ enabled["analyze"]
    /\ IF KeyMissing \/ strip(typed) = <<>> \/ strip(question_input) = <<>>
       THEN Reject
       ELSE /\ Fits(2)
            /\ StartFetch("on_analyze_clicked", "analyze", typed, strip(question_input))
    /\ UNCHANGED offDesktop

\* The extract trigger checks the URL only.
on_extract_clicked(typed) ==
    /\ Idle
    /\ enabled["extract"]
    /\ IF strip(typed) = <<>>
       THEN Reject
       ELSE /\ Fits(1)
            /\ StartFetch("on_extract_clicked", "extract", typed, <<>>)
    /\ UNCHANGED offDesktop

\* The tts trigger stores its worker in self.worker_thread without waiting
\* for the worker referenced before.
on_tts_clicked(typed) ==
    /\ Idle
    /\ enabled["tts"]
    /\ IF KeyMissing \/ strip(typed) = <<>>
       THEN Reject
       ELSE /\ Fits(1)
            /\ status' = [status EXCEPT !["tts"] = "loading"]
            /\ enabled' = DisableTrigger("tts")
            /\ workers' = Append(workers, TtsWorker(strip(typed)))
            /\ worker_thread' = Len(workers) + 1
            /\ rejected' = FALSE
            /\ UNCHANGED <<api_key, client, current_text, current_title, current_url,
                           history, history_list, selected_voice, question_input, model_combo,
                           length_slider, summarize_result, analyze_result,
                           extract_result, audio_file_path, events, ui, closed>>
    /\ UNCHANGED offDesktop

\* wait() returns: the handler that was waiting goes on.
wait_returns ==
    /\ ui.pc = "wait"
    /\ ~closed
    /\ ~Running(worker_thread)
    /\ ui' = IdleUi
    /\ IF ui.h = "closeEvent"
       THEN /\ closed' = TRUE
            /\ UNCHANGED <<workers, worker_thread>>
       ELSE /\ workers' = Append(workers, ContinuationWorker(ui, current_text))
            /\ worker_thread' = Len(workers) + 1
            /\ UNCHANGED closed
    /\ UNCHANGED <<api_key, client, current_text, current_title, current_url, history, history_list,
                   selected_voice, question_input, model_combo, length_slider,
                   status, enabled, summarize_result, analyze_result,
                   extract_result, audio_file_path, events, rejected>>
    /\ UNCHANGED offDesktop

\* The queued emission the event loop hands to its slot next.
Ev == Head(events)

Delivering(sig, tasks) ==
    /\ Idle
    /\ events # <<>>
    /\ Ev.sig = sig
    /\ workers[Ev.w].task_type \in tasks

\* What on_website_fetched does when handling the markup raises: the
\* except branch shows the error and nothing else.
ProcessingError ==
    /\ rejected' = FALSE
    /\ UNCHANGED <<current_text, current_title, status, enabled, extract_result,
                   workers, worker_thread, ui>>

on_website_fetched ==
    /\ Delivering("finished", {"fetch"})
    /\ events' = Tail(events)
    /\ LET html == Ev.payload.page
           slot == workers[Ev.w].slot
           text == extract_text(html)
       IN  IF PageTable[html].bad
           THEN ProcessingError
           ELSE /\ current_text' = text
                /\ current_title' = get_title(html)
                /\ rejected' = FALSE
                /\ IF slot = "extract"
                   THEN /\ extract_result' = text
                        /\ status' = [status EXCEPT ![slot] = "done"]
                        /\ enabled' = [enabled EXCEPT ![slot] = TRUE]
                        /\ UNCHANGED <<workers, worker_thread, ui>>
                   ELSE /\ status' = [status EXCEPT ![slot] = "thinking"]
                        /\ CleanUpAndStart(
                              Waiting("on_website_fetched", slot, <<>>, <<>>, Ev.w), text)
                        /\ UNCHANGED <<enabled, extract_result>>
    /\ UNCHANGED <<api_key, client, current_url, history, history_list, selected_voice,
                   question_input, model_combo, length_slider, summarize_result,
                   analyze_result, audio_file_path, closed>>
    /\ UNCHANGED offDesktop

\* The dictionary on_summarize_complete appends: it has no "query" key.
\* The result text and the time stamp are both named by the worker whose
\* completion is recorded.
SummaryEntry(result) ==
    [type |-> "Summary", title |-> current_title, has_query |-> FALSE, query |-> <<>>,
     result |-> result, time |-> result]

\* An append that puts the new entry in front.
RecordFirst(h, entry) == <<entry>> \o h

\* self.history.append(entry).
Record(h, entry) == Append(h, entry)

\* An analysis recorded with the dictionary of a summary.
AnalysisEntryAsSummary(result) == SummaryEntry(result)

\* The dictionary on_analyze_complete appends.
AnalysisEntry(result) ==
    [type |-> "Analysis", title |-> current_title, has_query |-> TRUE,
     query |-> question_input, result |-> result, time |-> result]

\* A list widget filled in insertion order.
update_history_list_oldest_first(h) ==
    [i \in 1..Len(h) |->
        [n |-> i, type |-> h[i].type, title |-> h[i].title, time |-> h[i].time]]

\* update_history_list: the widget is cleared and gets one row per entry of
\* reversed(self.history), numbered from 1.
update_history_list(h) ==
    [i \in 1..Len(h) |->
        LET item == h[Len(h) + 1 - i]
        IN  [n |-> i, type |-> item.type, title |-> item.title, time |-> item.time]]

on_summarize_complete ==
    /\ Delivering("finished", {"summarize"})
    /\ events' = Tail(events)
    /\ summarize_result' = Ev.payload.by
    /\ status' = [status EXCEPT !["summarize"] = "done"]
    /\ enabled' = [enabled EXCEPT !["summarize"] = TRUE]
    /\ history' = Record(history, SummaryEntry(Ev.payload.by))
    /\ history_list' = update_history_list(history')
    /\ rejected' = FALSE
    /\ UNCHANGED <<api_key, client, current_text, current_title, current_url,
                   worker_thread, selected_voice, question_input, model_combo,
                   length_slider, analyze_result, extract_result, audio_file_path,
                   workers, ui, closed>>
    /\ UNCHANGED offDesktop

on_analyze_complete ==
    /\ Delivering("finished", {"analyze"})
    /\ events' = Tail(events)
    /\ analyze_result' = Ev.payload.by
    /\ status' = [status EXCEPT !["analyze"] = "done"]
    /\ enabled' = [enabled EXCEPT !["analyze"] = TRUE]
    /\ history' = Record(history, AnalysisEntry(Ev.payload.by))
    /\ history_list' = update_history_list(history')
    /\ rejected' = FALSE
    /\ UNCHANGED <<api_key, client, current_text, current_title, current_url,
                   worker_thread, selected_voice, question_input, model_combo,
                   length_slider, summarize_result, extract_result, audio_file_path,
                   workers, ui, closed>>
    /\ UNCHANGED offDesktop

\* An error callback that shows the error dialog a second time.
ShowErrorTwice(w) == [workers EXCEPT ![w].nshown = @ + 2]

\* show_error in an error callback: one dialog with the message of the
\* worker whose error signal is delivered.
ShowError(w) == [workers EXCEPT ![w].nshown = @ + 1]

\* The three branches of on_worker_error set the status of the slot bound
\* into the callback to the error state and enable its trigger.
on_worker_error ==
    /\ Delivering("error", {"fetch", "summarize", "analyze"})
    /\ events' = Tail(events)
    /\ workers' = ShowError(Ev.w)
    /\ status' = [status EXCEPT ![workers[Ev.w].slot] = "error"]
    /\ enabled' = [enabled EXCEPT ![workers[Ev.w].slot] = TRUE]
    /\ rejected' = FALSE
    /\ UNCHANGED <<api_key, client, current_text, current_title, current_url, history, history_list,
                   worker_thread, selected_voice, question_input, model_combo,
                   length_slider, summarize_result, analyze_result, extract_result,
                   audio_file_path, ui, closed>>
    /\ UNCHANGED offDesktop

on_tts_complete ==
    /\ Delivering("finished", {"tts"})
    /\ events' = Tail(events)
    /\ audio_file_path' = Ev.payload.by
    /\ status' = [status EXCEPT !["tts"] = "done"]
    /\ enabled' = [enabled EXCEPT !["tts"] = TRUE]
    /\ rejected' = FALSE
    /\ UNCHANGED <<api_key, client, current_text, current_title, current_url, history, history_list,
                   worker_thread, selected_voice, question_input, model_combo,
                   length_slider, summarize_result, analyze_result, extract_result,
                   workers, ui, closed>>
    /\ UNCHANGED offDesktop

on_tts_error ==
    /\ Delivering("error", {"tts"})
    /\ events' = Tail(events)
    /\ workers' = ShowError(Ev.w)
    /\ status' = [status EXCEPT !["tts"] = "error"]
    /\ enabled' = [enabled EXCEPT !["tts"] = TRUE]
    /\ rejected' = FALSE
    /\ UNCHANGED <<api_key, client, current_text, current_title, current_url, history, history_list,
                   worker_thread, selected_voice, question_input, model_combo,
                   length_slider, summarize_result, analyze_result, extract_result,
                   audio_file_path, ui, closed>>
    /\ UNCHANGED offDesktop

\* A clear that does not look at the answer.
ClearUnasked(answer) == TRUE

\* The comparison of the answer to the clear question with Yes.
ClearConfirmed(answer) == answer = "Yes"

\* on_clear_history_clicked: the question dialog, and on Yes both the
\* ledger and the list widget are cleared.
on_clear_history_clicked(answer) ==
    /\ Idle
    /\ rejected' = FALSE
    /\ IF ClearConfirmed(answer)
       THEN history' = <<>> /\ history_list' = <<>>
       ELSE UNCHANGED <<history, history_list>>
    /\ UNCHANGED <<api_key, client, current_text, current_title, current_url,
                   worker_thread, selected_voice, question_input, model_combo,
                   length_slider, status, enabled, summarize_result, analyze_result,
                   extract_result, audio_file_path, workers, events, ui, closed>>
    /\ UNCHANGED offDesktop

\* closeEvent waits for the worker self.worker_thread references, then
\* accepts the event.
closeEvent ==
    /\ Idle
    /\ rejected' = FALSE
    /\ IF worker_thread # 0 /\ Running(worker_thread)
       THEN /\ ui' = Waiting("closeEvent", "", <<>>, <<>>, 0)
            /\ UNCHANGED closed
       ELSE /\ closed' = TRUE
            /\ UNCHANGED ui
    /\ UNCHANGED <<api_key, client, current_text, current_title, current_url, history, history_list,
                   worker_thread, selected_voice, question_input, model_combo,
                   length_slider, status, enabled, summarize_result, analyze_result,
                   extract_result, audio_file_path, workers, events>>
    /\ UNCHANGED offDesktop

\* textChanged of the credential field.  Building the client may raise, in
\* which case the error is shown and the old client stays.
on_api_key_changed(text, raised) ==
    /\ Idle
    /\ text # api_key
    /\ api_key' = text
    /\ client' = IF text # "" /\ ~raised THEN text ELSE client
    /\ UNCHANGED <<current_text, current_title, current_url, history, history_list, worker_thread,
                   selected_voice, question_input, model_combo, length_slider,
                   status, enabled, summarize_result, analyze_result, extract_result,
                   audio_file_path, workers, events, ui, closed>>
    /\ rejected' = FALSE
    /\ UNCHANGED offDesktop

select_voice(voice_id) ==
    /\ Idle
    /\ voice_id # selected_voice
    /\ selected_voice' = voice_id
    /\ UNCHANGED <<api_key, client, current_text, current_title, current_url, history, history_list,
                   worker_thread, question_input, model_combo, length_slider,
                   status, enabled, summarize_result, analyze_result, extract_result,
                   audio_file_path, workers, events, ui, closed>>
    /\ rejected' = FALSE
    /\ UNCHANGED offDesktop

\* The user edits the question box, the model selector or the length slider.
EditQuestion(text) ==
    /\ Idle
    /\ text # question_input
    /\ question_input' = text
    /\ UNCHANGED <<api_key, client, current_text, current_title, current_url, history, history_list,
                   worker_thread, selected_voice, model_combo, length_slider,
                   status, enabled, summarize_result, analyze_result, extract_result,
                   audio_file_path, workers, events, ui, closed>>
    /\ rejected' = FALSE
    /\ UNCHANGED offDesktop

SelectModel(m) ==
    /\ Idle
    /\ m # model_combo
    /\ model_combo' = m
    /\ UNCHANGED <<api_key, client, current_text, current_title, current_url, history, history_list,
                   worker_thread, selected_voice, question_input, length_slider,
                   status, enabled, summarize_result, analyze_result, extract_result,
                   audio_file_path, workers, events, ui, closed>>
    /\ rejected' = FALSE
    /\ UNCHANGED offDesktop

MoveSlider(v) ==
    /\ Idle
    /\ v # length_slider
    /\ length_slider' = v
    /\ UNCHANGED <<api_key, client, current_text, current_title, current_url, history, history_list,
                   worker_thread, selected_voice, question_input, model_combo,
                   status, enabled, summarize_result, analyze_result, extract_result,
                   audio_file_path, workers, events, ui, closed>>
    /\ rejected' = FALSE
    /\ UNCHANGED offDesktop

----------------------------------------------------------------------------
\* AIWebsiteReaderApp.__init__: the credential comes from the environment,
\* no client is built.
AtStart ==
    /\ client = "none"
    /\ current_text = <<>>
    /\ current_title = <<>>
    /\ current_url = <<>>
    /\ history = <<>>
    /\ history_list = <<>>
    /\ worker_thread = 0
    /\ selected_voice = DefaultVoice
    /\ question_input = <<>>
    /\ model_combo = DefaultModel
    /\ length_slider = DefaultLength
    /\ status = [s \in Slots |-> "ready"]
    /\ enabled = [s \in Slots |-> TRUE]
    /\ summarize_result = 0
    /\ analyze_result = 0
    /\ extract_result = <<>>
    /\ audio_file_path = 0
    /\ workers = <<>>
    /\ events = <<>>
    /\ ui = IdleUi
    /\ closed = FALSE
    /\ rejected = FALSE
    /\ session_state = [results |-> <<>>]
    /\ expanders = <<>>
    /\ shown = NoResult

\* The URL typed with its scheme, the key and the question.
TypedUrl1 == Https \o <<"a">>

Init ==
    /\ api_key \in Keys
    /\ AtStart
    /\ call = NoCall
    /\ budget = MaxWorkers

Next ==
    \/ \E typed \in TypedUrls : on_summarize_clicked(typed)
    \/ \E typed \in TypedUrls : on_analyze_clicked(typed)
    \/ \E typed \in TypedUrls : on_extract_clicked(typed)
    \/ \E typed \in TypedTexts : on_tts_clicked(typed)
    \/ \E w \in 1..Len(workers) : run(w)
    \/ wait_returns
    \/ on_website_fetched
    \/ on_summarize_complete
    \/ on_analyze_complete
    \/ on_worker_error
    \/ on_tts_complete
    \/ on_tts_error
    \/ \E answer \in Answers : on_clear_history_clicked(answer)
    \/ closeEvent
    \/ \E text \in Keys, raised \in BOOLEAN : on_api_key_changed(text, raised)
    \/ \E text \in TypedQuestions : EditQuestion(text)

\* The desktop app with the model, the length and the voice left as they
\* are at start.
Spec == Init /\ [][Next]_vars

\* The desktop app of a user who starts without a key, types the key and a
\* question, works with the summarize and the analyze tab and clears the
\* history.
InitLedger ==
    /\ api_key = ""
    /\ AtStart
    /\ call = NoCall
    /\ budget = MaxLedgerWorkers

NextLedger ==
    \/ on_summarize_clicked(TypedUrl1)
    \/ on_analyze_clicked(TypedUrl1)
    \/ \E w \in 1..Len(workers) : run(w)
    \/ wait_returns
    \/ on_website_fetched
    \/ on_summarize_complete
    \/ on_analyze_complete
    \/ on_worker_error
    \/ \E answer \in Answers : on_clear_history_clicked(answer)
    \/ on_api_key_changed("k1", FALSE)
    \/ EditQuestion(<<"q">>)

SpecLedger == InitLedger /\ [][NextLedger]_vars

\* The same with the three selectors in use.
NextSettings ==
    \/ Next
    \/ \E v \in Voices : select_voice(v)
    \/ \E m \in Models : SelectModel(m)
    \/ \E v \in Lengths : MoveSlider(v)

SpecSettings == Init /\ [][NextSettings]_vars

\* The desktop app of a user who types a key, a question and a text to be
\* spoken, and who, while some worker is running, moves each of the three
\* selectors once and replaces the key.
MaxCaptureWorkers == 3

\* Some worker is inside run().
Busy == \E w \in 1..Len(workers) : Running(w)

InitCapture ==
    /\ api_key = ""
    /\ AtStart
    /\ call = NoCall
    /\ budget = MaxCaptureWorkers

NextCapture ==
    \/ on_summarize_clicked(TypedUrl1)
    \/ on_analyze_clicked(TypedUrl1)
    \/ on_tts_clicked(<<"t">>)
    \/ \E w \in 1..Len(workers) : run(w)
    \/ wait_returns
    \/ on_website_fetched
    \/ on_summarize_complete
    \/ on_analyze_complete
    \/ on_worker_error
    \/ on_tts_complete
    \/ on_tts_error
    \/ on_api_key_changed("k1", FALSE)
    \/ EditQuestion(<<"q">>)
    \/ Busy /\ on_api_key_changed("k2", FALSE)
    \/ Busy /\ select_voice("nova")
    \/ Busy /\ SelectModel("gpt-4")
    \/ Busy /\ MoveSlider(100)

SpecCapture == InitCapture /\ [][NextCapture]_vars

\* The desktop app of a user who leaves the window open, where every
\* remote call returns or fails in the end and the event loop goes on
\* handing queued emissions to their callbacks.
MaxLiveWorkers == 3

InitLive ==
    /\ api_key = ""
    /\ AtStart
    /\ call = NoCall
    /\ budget = MaxLiveWorkers

\* The callbacks the event loop runs for queued emissions.
Callbacks ==
    \/ on_website_fetched
    \/ on_summarize_complete
    \/ on_analyze_complete
    \/ on_worker_error
    \/ on_tts_complete
    \/ on_tts_error

NextLive ==
    \/ on_summarize_clicked(TypedUrl1)
    \/ on_analyze_clicked(TypedUrl1)
    \/ on_extract_clicked(TypedUrl1)
    \/ on_tts_clicked(<<"t">>)
    \/ \E w \in 1..Len(workers) : run(w)
    \/ wait_returns
    \/ Callbacks
    \/ on_api_key_changed("k1", FALSE)
    \/ EditQuestion(<<"q">>)

SpecLive ==
    /\ InitLive
    /\ [][NextLive]_vars
    /\ WF_vars(\E w \in 1..Len(workers) : run(w))
    /\ WF_vars(wait_returns)
    /\ WF_vars(Callbacks)

----------------------------------------------------------------------------
\* The functions of the two front ends, one call at a time.  call.fn names
\* the function, call.arg its argument and, once call.done, call.ret the
\* value it returned.

Http == <<"h", "t", "t", "p">>

\* The URLs typed into a URL field.
UrlArgs ==
    { <<"a">>,
      <<" ", "a", " ">>,
      Http \o <<":", "/", "/", "a">>,
      Https \o <<"a">>,
      <<" ">> \o Https \o <<"a">>,
      Http \o <<"b", "i", "n", ".", "o", "r", "g">>,
      Http,
      <<"f", "t", "p", ":", "/", "/", "a">> }

\* The URL a fetch trigger of the desktop front end hands to its worker.
FetchUrl(typed) == NormalizeUrl(strip(typed))

\* The URL the web front end hands to fetch_website: the text of the field
\* as it is, with the same test for the scheme.
StreamlitUrl(url) == IF startswith(url, Http) THEN url ELSE Https \o url

Pending(f, args) == {[fn |-> f, arg |-> a, done |-> FALSE, ret |-> <<>>] : a \in args}

Returns(f, value) ==
    /\ call.fn = f
    /\ ~call.done
    /\ call' = [call EXCEPT !.done = TRUE, !.ret = value]
    /\ UNCHANGED <<desktop, session_state, expanders, shown, budget>>

Returned(f) == call.fn = f /\ call.done

url_of_press == Returns("FetchUrl", FetchUrl(call.arg))

url_of_script_run == Returns("StreamlitUrl", StreamlitUrl(call.arg))

\* The caps of the text forwarded to the completion and to the speech call.
SummaryCap == 4000

SpeechCap == 3000

\* Length of the longest text given to the truncating functions.
MaxText == 5000

Digits == <<"0", "1", "2", "3", "4", "5", "6", "7", "8", "9">>

\* A text of n characters, no two neighbours alike.
Text(n) == [i \in 1..n |-> Digits[(i % 10) + 1]]

TextArgs ==
    {Text(n) : n \in {0, 1, SpeechCap - 1, SpeechCap, SpeechCap + 1,
                      SummaryCap - 1, SummaryCap, SummaryCap + 1, MaxText}}

\* The slice s[:n] for n >= 0.
Slice(s, n) == SubSeq(s, 1, IF Len(s) < n THEN Len(s) ELSE n)

\* WorkerThread._summarize and WorkerThread._analyze: the content put into
\* the prompt of the completion call.
summarize_content(content) == Slice(content, SummaryCap)

analyze_content(content) == Slice(content, SummaryCap)

\* A speech call under the cap of the completion calls.
tts_text_long(content) == Slice(content, SummaryCap)

\* WorkerThread._text_to_speech: the input of the speech call.
tts_text(content) == Slice(content, SpeechCap)

\* AIReader.summarize, AIReader.analyze and AIReader.text_to_speech of the
\* web front end.
AIReader_summarize(content) == Slice(content, SummaryCap)

AIReader_analyze(content) == Slice(content, SummaryCap)

AIReader_text_to_speech(text) == Slice(text, SpeechCap)

_summarize == Returns("_summarize", summarize_content(call.arg))

_analyze == Returns("_analyze", analyze_content(call.arg))

_text_to_speech == Returns("_text_to_speech", tts_text(call.arg))

summarize == Returns("summarize", AIReader_summarize(call.arg))

analyze == Returns("analyze", AIReader_analyze(call.arg))

text_to_speech == Returns("text_to_speech", AIReader_text_to_speech(call.arg))

\* Number of elements of the largest markup given to the extractor.
MaxNodes == 3

\* Length of the longest text given to the whitespace normalisation.
MaxLen == 5

\* pv[i] is a or an element enclosing a, or the top level.
RECURSIVE OnPath(_, _, _)
OnPath(pv, i, a) == a = 0 \/ i = a \/ (i # 0 /\ OnPath(pv, pv[i], a))

\* The shapes of a markup of n elements listed in document order: each
\* element is enclosed by the element before it, by one enclosing that, or
\* by none.
ParentVectors(n) ==
    {pv \in [1..n -> 0..n] :
        \A i \in 1..n : pv[i] < i /\ (i > 1 => OnPath(pv, i - 1, pv[i]))}

Markups(n, names, texts) ==
    {[i \in 1..n |-> [tag |-> tg[i], text |-> tx[i], parent |-> pv[i]]] :
        tg \in [1..n -> names], tx \in texts, pv \in ParentVectors(n)}

\* The text of element i in the markups given to extract_text: a character
\* no other element holds.
Marker(i) == <<Digits[i + 1]>>

ExtractArgs ==
    UNION {Markups(n, {"div", "script", "style"}, {[i \in 1..n |-> Marker(i)]}) :
              n \in 0..MaxNodes}

\* The markups given to get_title: any element may be a title and any may
\* be empty.
TitleArgs ==
    UNION {Markups(n, {"div", "title"}, [1..n -> {<<>>, <<"t">>}]) : n \in 0..MaxNodes}

\* The texts soup.get_text() may hand to the normalisation.
NormalizeArgs == UNION {[1..n -> {"a", " ", "\n", "\t"}] : n \in 0..MaxLen}

\* AIReader.extract_text and AIReader.get_title of the web front end.
AIReader_extract_text(nodes) == normalize(get_text(nodes))

AIReader_get_title(nodes) ==
    LET titles == {i \in 1..Len(nodes) : nodes[i].tag = "title"}
    IN  IF titles = {} THEN FallbackTitle
        ELSE string(nodes, CHOOSE i \in titles : \A j \in titles : i <= j)

extract_text_desktop == Returns("extract_text", soup_text(call.arg))

extract_text_web == Returns("AIReader.extract_text", AIReader_extract_text(call.arg))

normalize_text == Returns("normalize", normalize(call.arg))

\* The normalisation applied to the text it has just returned.
normalize_output ==
    /\ Returned("normalize")
    /\ call' = [fn |-> "normalize_output", arg |-> call.ret, done |-> TRUE,
                ret |-> normalize(call.ret)]
    /\ UNCHANGED <<desktop, session_state, expanders, shown, budget>>

get_title_desktop == Returns("get_title", soup_title(call.arg))

get_title_web == Returns("AIReader.get_title", AIReader_get_title(call.arg))

InitFunctions ==
    /\ api_key = ""
    /\ AtStart
    /\ budget = 0
    /\ \/ call \in Pending("FetchUrl", UrlArgs)
       \/ call \in Pending("StreamlitUrl", UrlArgs)
       \/ call \in Pending("_summarize", TextArgs)
       \/ call \in Pending("_analyze", TextArgs)
       \/ call \in Pending("_text_to_speech", TextArgs)
       \/ call \in Pending("summarize", TextArgs)
       \/ call \in Pending("analyze", TextArgs)
       \/ call \in Pending("text_to_speech", TextArgs)
       \/ call \in Pending("extract_text", ExtractArgs)
       \/ call \in Pending("AIReader.extract_text", ExtractArgs)
       \/ call \in Pending("normalize", NormalizeArgs)
       \/ call \in Pending("get_title", TitleArgs)
       \/ call \in Pending("AIReader.get_title", TitleArgs)

NextFunctions ==
    \/ url_of_press
    \/ url_of_script_run
    \/ _summarize
    \/ _analyze
    \/ _text_to_speech
    \/ summarize
    \/ analyze
    \/ text_to_speech
    \/ extract_text_desktop
    \/ extract_text_web
    \/ normalize_text
    \/ normalize_output
    \/ get_title_desktop
    \/ get_title_web

\* The functions of the two front ends, each applied once to one argument.
SpecFunctions == InitFunctions /\ [][NextFunctions]_vars

----------------------------------------------------------------------------
\* The web front end (src/app_streamlit.py).  Every interaction runs the
\* script once from top to bottom; the run is one step.

\* Number of entries st.session_state.results holds at most.
MaxResults == 3

Buttons == {"btn_summarize", "btn_analyze", "btn_extract"}

\* The entries appended by the summarize and the analyze tab.  The time
\* stamp is the position of the entry in the ledger.
WebSummary(title) ==
    [type |-> "Summary", title |-> title, has_query |-> FALSE, query |-> <<>>,
     time |-> Len(session_state.results) + 1]

WebAnalysis(title, query) ==
    [type |-> "Analysis", title |-> title, has_query |-> TRUE, query |-> query,
     time |-> Len(session_state.results) + 1]

\* The history tab: one expander per entry of reversed(results), numbered
\* from 1.
tab4(results) ==
    [i \in 1..Len(results) |->
        LET result == results[Len(results) + 1 - i]
        IN  [n |-> i, type |-> result.type, title |-> result.title, time |-> result.time]]

\* What a run renders of the history: nothing without a key, since the
\* tabs are built only when a key is there.
Rendered(key, results) == IF key = "" THEN <<>> ELSE tab4(results)

WebUnchanged == UNCHANGED <<desktop_but_key, call, budget>>

\* The key field is edited: the script runs with the new key.
key_input(text) ==
    /\ text # api_key
    /\ api_key' = text
    /\ expanders' = Rendered(text, session_state.results)
    /\ shown' = NoResult
    /\ UNCHANGED session_state
    /\ WebUnchanged

\* Where a run of a tab may raise: nowhere, while the page is fetched and
\* parsed, in the completion call, or in the speech call.
Stages == {"none", "fetch", "model", "tts"}

\* A button of the first three tabs is pressed with its fields filled.
\* The summarize and the analyze tab fetch the page, call the model, show
\* the result, call the speech synthesis when the sidebar box is ticked and
\* then append the entry; an exception raised anywhere in between leaves
\* the try block, so that the error is shown and what follows is skipped.
\* The extract tab shows the text and appends nothing.
button_run(btn, html, use_tts, raised) ==
    /\ api_key # ""
    /\ Len(session_state.results) < MaxResults
    /\ raised = "model" => btn # "btn_extract"
    /\ raised = "tts" => (btn # "btn_extract" /\ use_tts)
    /\ LET title == get_title(html)
           entry == IF btn = "btn_summarize" THEN WebSummary(title)
                    ELSE WebAnalysis(title, <<"q">>)
           results == IF raised # "none" \/ btn = "btn_extract" THEN session_state.results
                      ELSE Append(session_state.results, entry)
       IN  /\ shown' = IF btn # "btn_extract" /\ raised \in {"none", "tts"}
                       THEN entry ELSE NoResult
           /\ session_state' = [session_state EXCEPT !.results = results]
           /\ expanders' = tab4(results)
    /\ UNCHANGED api_key
    /\ WebUnchanged

\* The clear button of the history tab, which is there while the ledger has
\* entries: the ledger is replaced by an empty one and the script runs again.
clear_run ==
    /\ api_key # ""
    /\ session_state.results # <<>>
    /\ session_state' = [session_state EXCEPT !.results = <<>>]
    /\ expanders' = tab4(<<>>)
    /\ shown' = NoResult
    /\ UNCHANGED api_key
    /\ WebUnchanged

InitStreamlit ==
    /\ api_key \in Keys
    /\ AtStart
    /\ call = NoCall
    /\ budget = 0

NextStreamlit ==
    \/ \E text \in Keys : key_input(text)
    \/ \E btn \in Buttons, html \in {p \in PageIds : ~PageTable[p].bad},
          use_tts \in BOOLEAN, raised \in Stages :
          button_run(btn, html, use_tts, raised)
    \/ clear_run

SpecStreamlit == InitStreamlit /\ [][NextStreamlit]_vars

----------------------------------------------------------------------------
\* Properties.

WorkerIds == 1..Len(workers)

RunningOf(slot) == {w \in WorkerIds : Running(w) /\ workers[w].slot = slot}

\* C1: for each slot at most one worker started on behalf of that slot is
\* still running.
C1_SingleFlightPerSlot ==
    \A slot \in Slots : Cardinality(RunningOf(slot)) <= 1

\* A slot whose second worker runs after its first has ended, while a worker
\* of another slot has been started in between.
C1_Witness ==
    \E w1, w2 \in WorkerIds, w3 \in WorkerIds :
        /\ w1 < w3 /\ w3 < w2
        /\ workers[w1].slot = workers[w2].slot
        /\ workers[w3].slot # workers[w1].slot
        /\ ~Running(w1)
        /\ Running(w2)

\* C2: a worker that has left run() has emitted exactly one of finished and
\* error, error exactly when the dispatched operation raised; a worker still
\* in run() has emitted nothing.
C2_OneTerminalOutcome ==
    \A w \in WorkerIds :
        IF Running(w)
        THEN workers[w].nfinished = 0 /\ workers[w].nerror = 0
        ELSE /\ workers[w].nfinished + workers[w].nerror = 1
             /\ (workers[w].nerror = 1) = (workers[w].payload.kind = "error")

\* Every task type has ended, some worker with finished and some with error.
C2_Witness ==
    /\ \E w \in WorkerIds :
          ~Running(w) /\ workers[w].nerror = 1 /\ workers[w].task_type # "fetch"
    /\ \E w \in WorkerIds :
          ~Running(w) /\ workers[w].nfinished = 1 /\ workers[w].task_type # "fetch"

\* A queued emission of a worker that a later submission has quit and waited
\* for is being handed to its slot.
LateDelivery ==
    /\ Idle
    /\ events # <<>>
    /\ workers[Ev.w].quiesced
    /\ events' = Tail(events)

\* C3: the callback of a worker that was quiesced for a newer task, when
\* delivered afterwards, changes nothing and starts no work.
C3_LateCallbackIgnored ==
    [][LateDelivery =>
          UNCHANGED <<current_text, current_title, worker_thread, workers, ui,
                      status, enabled, history, history_list, summarize_result, analyze_result,
                      extract_result>>]_vars

\* C4: once the close event has been accepted no worker is still running.
C4_NoWorkerRunsAfterClose ==
    closed => \A w \in WorkerIds : ~Running(w)

Delivered(w) == \A i \in 1..Len(events) : events[i].w # w

\* C5: a summarize or analyze worker is created by the success callback of
\* a fetch worker of its slot and carries the text extracted from the
\* markup that fetch returned; a fetch that failed has no phase-two worker.
C5_PhaseTwoAfterFetch ==
    /\ \A w \in WorkerIds :
          workers[w].task_type \in {"summarize", "analyze"} =>
             LET p == workers[w].parent
             IN  /\ p \in 1..(w - 1)
                 /\ workers[p].task_type = "fetch"
                 /\ workers[p].slot = workers[w].slot
                 /\ workers[w].task_type = workers[w].slot
                 /\ workers[p].nfinished = 1
                 /\ Delivered(p)
                 /\ workers[p].payload.kind = "page"
                 /\ workers[w].content = extract_text(workers[p].payload.page)
    /\ \A p \in WorkerIds :
          workers[p].nerror = 1 => \A w \in WorkerIds : workers[w].parent # p
    /\ \A w1, w2 \in WorkerIds :
          (w1 # w2 /\ workers[w1].parent # 0) => workers[w1].parent # workers[w2].parent

\* A phase-two worker with non-empty text exists, and a failed fetch has
\* been reported.
C5_Witness ==
    /\ \E w \in WorkerIds :
          workers[w].task_type \in {"summarize", "analyze"} /\ workers[w].content # <<>>
    /\ \E p \in WorkerIds :
          workers[p].task_type = "fetch" /\ workers[p].nerror = 1 /\ Delivered(p)

\* The event loop hands over the error signal of a worker, or markup on
\* which the extractor raises.
ErrorReported ==
    /\ Idle
    /\ events # <<>>
    /\ events' = Tail(events)
    /\ \/ Ev.sig = "error"
       \/ Ev.payload.kind = "page" /\ PageTable[Ev.payload.page].bad

\* C6: after a task of a slot has ended in an error, be it a failed worker
\* or an exception while the fetched markup is handled, the slot's status
\* shows the error and its trigger is enabled.
C6_ErrorResetsSlot ==
    [][ErrorReported =>
          /\ status'[workers[Ev.w].slot] = "error"
          /\ enabled'[workers[Ev.w].slot]]_vars

\* The trigger of a slot goes from enabled to disabled: its press has been
\* accepted.
Accepted(slot) == enabled[slot] /\ ~enabled'[slot]

\* C7: a rejected trigger press changes nothing but the notification, and
\* no press is accepted with an empty credential (summarize, analyze, tts)
\* or an empty question (analyze).
C7_RejectedPressChangesNothing ==
    [][/\ (rejected' /\ ~rejected) => UNCHANGED appState
       /\ api_key = "" => \A slot \in {"summarize", "analyze", "tts"} : ~Accepted(slot)
       /\ strip(question_input) = <<>> => ~Accepted("analyze")]_vars

\* A press has been rejected while a worker is running and a slot is busy.
C7_Witness ==
    /\ rejected
    /\ \E w \in WorkerIds : Running(w)
    /\ \E slot \in Slots : ~enabled[slot]

\* C8: while the credential is empty no trigger press creates a worker.
C8_NoDispatchWithoutKey ==
    [][(api_key = "" /\ Len(workers') > Len(workers))
          => workers'[Len(workers')].parent # 0]_vars

\* C9: the interaction thread is never inside wait() on a worker whose
\* remote operation has not returned.
C9_UiNeverBlocks ==
    ui.pc = "wait" => ~Running(worker_thread)

\* C10: a submission never waits for a worker of another slot.
C10_NoCrossSlotWait ==
    (ui.pc = "wait" /\ ui.h # "closeEvent" /\ Running(worker_thread))
        => workers[worker_thread].slot = ui.slot

\* A URL that begins with one of the two schemes.
HasScheme(u) ==
    \/ startswith(u, Http \o <<":", "/", "/">>)
    \/ startswith(u, Http \o <<"s", ":", "/", "/">>)

\* What the user typed, as the front end reads it: the desktop front end
\* strips the field, the web front end does not.
TypedUrl == IF call.fn = "FetchUrl" THEN strip(call.arg) ELSE call.arg

\* C11: the URL handed to the fetcher for a non-empty typed URL begins with
\* http:// or https://, and it is the typed URL with https:// put in front
\* exactly when the typed URL has neither scheme, the typed URL itself
\* otherwise.
C11_FetchUrlAbsolute ==
    ((Returned("FetchUrl") \/ Returned("StreamlitUrl")) /\ TypedUrl # <<>>) =>
        /\ HasScheme(call.ret)
        /\ call.ret = IF HasScheme(TypedUrl) THEN TypedUrl ELSE Https \o TypedUrl

Completions == {"_summarize", "_analyze", "summarize", "analyze"}

Speeches == {"_text_to_speech", "text_to_speech"}

\* ret is the first n characters of arg, or all of arg when it has fewer.
FirstOf(n) ==
    /\ Len(call.ret) = IF Len(call.arg) <= n THEN Len(call.arg) ELSE n
    /\ \A i \in 1..Len(call.ret) : call.ret[i] = call.arg[i]
    /\ Len(call.arg) <= n => call.ret = call.arg

\* C16: the text forwarded to the completion call by summarize and analyze
\* is the first min(len, 4000) characters of the input, the text forwarded
\* to the speech call the first min(len, 3000) characters, in both front
\* ends; a text within the cap is forwarded as it is.
C16_ForwardedPrefix ==
    /\ (call.done /\ call.fn \in Completions) => FirstOf(4000)
    /\ (call.done /\ call.fn \in Speeches) => FirstOf(3000)

\* The longest text has been cut to the cap for the speech call of the
\* desktop front end.
C16_Witness ==
    /\ Returned("_text_to_speech")
    /\ Len(call.arg) = MaxText
    /\ Len(call.ret) = SpeechCap
    /\ call.ret # call.arg

ExtractCalls == {"extract_text", "AIReader.extract_text"}

\* Element i is a script or style element or lies inside one.
RECURSIVE InScriptOrStyle(_, _)
InScriptOrStyle(nodes, i) ==
    /\ i # 0
    /\ \/ nodes[i].tag \in {"script", "style"}
       \/ InScriptOrStyle(nodes, nodes[i].parent)

Occurs(c, s) == \E k \in 1..Len(s) : s[k] = c

\* C17: extract_text returns the text of every element that is neither a
\* script or style element nor inside one, and nothing of the text of the
\* script and style elements and of what they enclose, at any depth, in
\* both front ends.
C17_ScriptAndStyleRemoved ==
    (call.done /\ call.fn \in ExtractCalls) =>
        \A i \in 1..Len(call.arg) :
            Occurs(Marker(i)[1], call.ret) <=> ~InScriptOrStyle(call.arg, i)

\* A markup with a script element inside another element, an element
\* inside a style element and text that stays.
C17_Witness ==
    /\ Returned("extract_text")
    /\ \E i, j \in 1..Len(call.arg) :
          /\ call.arg[i].tag = "script" /\ call.arg[i].parent # 0
          /\ call.arg[call.arg[i].parent].tag = "div"
          /\ call.arg[j].tag = "div" /\ Occurs(Marker(j)[1], call.ret)
    /\ \E i \in 1..Len(call.arg) :
          /\ call.arg[i].tag = "style"
          /\ call.arg[i].parent = 0

RECURSIVE dropSpaces(_)
dropSpaces(s) == IF s # <<>> /\ Head(s) = " " THEN dropSpaces(Tail(s)) ELSE s

\* The pieces of s between its runs of two or more spaces.
RECURSIVE splitRuns(_, _)
splitRuns(s, cur) ==
    IF s = <<>> THEN <<cur>>
    ELSE IF Len(s) >= 2 /\ s[1] = " " /\ s[2] = " "
         THEN <<cur>> \o splitRuns(dropSpaces(s), <<>>)
         ELSE splitRuns(Tail(s), Append(cur, Head(s)))

\* The specified normalisation: the lines, each stripped and split on its
\* runs of two or more spaces, each phrase stripped, the empty ones dropped
\* and the rest joined by single newlines.
Reference(text) ==
    LET lines   == splitlines(text)
        phrases == flatten([i \in 1..Len(lines) |->
                      LET ps == splitRuns(strip(lines[i]), <<>>)
                      IN  [j \in 1..Len(ps) |-> strip(ps[j])]])
    IN  join(<<"\n">>, nonEmpty(phrases))

OutLines(s) == IF s = <<>> THEN <<>> ELSE split(s, <<"\n">>)

\* C18: the normalisation of extract_text, which splits on the literal
\* two-space string, returns what the specified normalisation returns, and
\* its output has no empty line, no line with leading or trailing whitespace
\* and no line with two spaces in a row.
C18_NormalizationAsSpecified ==
    Returned("normalize") =>
        /\ call.ret = Reference(call.arg)
        /\ \A k \in 1..Len(OutLines(call.ret)) :
              LET line == OutLines(call.ret)[k]
              IN  /\ line # <<>>
                  /\ strip(line) = line
                  /\ \A m \in 1..(Len(line) - 1) : ~(line[m] = " " /\ line[m + 1] = " ")

\* A run of three spaces, which the literal split cuts into a phrase with a
\* leading space, has been normalised.
C18_Witness ==
    /\ Returned("normalize")
    /\ call.arg = <<"a", " ", " ", " ", "a">>
    /\ call.ret = <<"a", "\n", "a">>

TitleCalls == {"get_title", "AIReader.get_title"}

TitleElements(nodes) == {i \in 1..Len(nodes) : nodes[i].tag = "title"}

\* All the text inside element i.
ElementText(nodes, i) ==
    flatten([j \in 1..Len(nodes) |-> IF Inside(nodes, j, i) THEN nodes[j].text ELSE <<>>])

\* C19: get_title returns a title that is neither missing nor empty: the
\* fallback title for markup without a title element, the text of the first
\* title element otherwise, also for a title element that is empty or has
\* child elements.
C19_TitleUsable ==
    (call.done /\ call.fn \in TitleCalls) =>
        LET titles == TitleElements(call.arg)
            first  == CHOOSE i \in titles : \A j \in titles : i <= j
        IN  /\ call.ret # None
            /\ call.ret # <<>>
            /\ titles = {} => call.ret = FallbackTitle
            /\ (titles # {} /\ ElementText(call.arg, first) # <<>>) =>
                  call.ret = ElementText(call.arg, first)

\* rows shows the entries of ledger newest first, one row per entry.
NewestFirst(rows, ledger) ==
    /\ Len(rows) = Len(ledger)
    /\ \A i \in 1..Len(ledger) :
          LET entry == ledger[Len(ledger) + 1 - i]
          IN  /\ rows[i].type = entry.type
              /\ rows[i].title = entry.title
              /\ rows[i].time = entry.time

\* C12: after any appends and clears the displayed history is the ledger in
\* reverse insertion order, with as many rows as the ledger has entries: the
\* list widget of the desktop front end, and the expanders of the web front
\* end whenever it renders its tabs.
C12_HistoryNewestFirst ==
    /\ NewestFirst(history_list, history)
    /\ api_key # "" => NewestFirst(expanders, session_state.results)

\* Three entries A, B, C of both kinds have been appended and the list
\* shows C, B, A.
C12_Witness ==
    /\ Len(history) = 3
    /\ history[1].time < history[2].time /\ history[2].time < history[3].time
    /\ history_list[1].time = history[3].time
    /\ history_list[3].time = history[1].time
    /\ history[1].type # history[3].type

\* The step in which the user answers Yes to the clear question.
ConfirmedClear == on_clear_history_clicked("Yes")

\* C13: between two clears the ledger only grows at its end: a step leaves
\* the history as it is or adds one entry behind the entries it has, which
\* stay as they are and where they are; only the clear the user confirmed
\* removes entries.
C13_LedgerAppendOnly ==
    [][\/ history' = history
       \/ /\ Len(history') = Len(history) + 1
          /\ SubSeq(history', 1, Len(history)) = history
       \/ ConfirmedClear]_vars

\* The ledger holds two entries appended after a clear: the completion of
\* an earlier worker has been delivered and is no longer recorded.
C13_Witness ==
    /\ Len(history) = 2
    /\ history[1].time < history[2].time
    /\ \E w \in WorkerIds :
          /\ workers[w].task_type \in {"summarize", "analyze"}
          /\ workers[w].nfinished = 1
          /\ Delivered(w)
          /\ \A i \in 1..Len(history) : history[i].result # w

\* C14: in both front ends the ledger is emptied only by the step in which
\* the user confirms the clear, and a declined clear leaves the ledger and
\* its display as they are.  The web front end has no step in which the
\* user confirms.
C14_ClearOnlyConfirmed ==
    [][/\ (history # <<>> /\ history' = <<>>) => ConfirmedClear
       /\ (session_state.results # <<>> /\ session_state'.results = <<>>) => ConfirmedClear
       /\ on_clear_history_clicked("No") => UNCHANGED <<history, history_list>>]_vars

\* The event loop hands the finished signal of a worker of the given task
\* type to its callback.
SuccessOf(task_type) ==
    /\ Delivering("finished", {task_type})
    /\ events' = Tail(events)

AppendsOne(type, has_query) ==
    /\ Len(history') = Len(history) + 1
    /\ SubSeq(history', 1, Len(history)) = history
    /\ history'[Len(history')].type = type
    /\ history'[Len(history')].has_query = has_query
    /\ history'[Len(history')].result = Ev.payload.by

\* C15: the successful completion of a summarize task appends one Summary
\* entry and that of an analyze task one Analysis entry; no other step (a
\* failure, an extract fetch, a tts task) appends anything, and an entry
\* has a question exactly when it is an Analysis.
C15_EntryPerCompletion ==
    [][/\ SuccessOf("summarize") => AppendsOne("Summary", FALSE)
       /\ SuccessOf("analyze") => AppendsOne("Analysis", TRUE)
       /\ ~(SuccessOf("summarize") \/ SuccessOf("analyze")) => Len(history') <= Len(history)
       /\ \A i \in 1..Len(history') :
             history'[i].has_query <=> history'[i].type = "Analysis"]_vars

\* An analysis has been recorded and an extract fetch or a tts task has
\* been delivered without a record.
C15_Witness ==
    /\ Len(history) = 1
    /\ history[1].type = "Analysis"
    /\ \E w \in WorkerIds :
          /\ workers[w].slot \in {"extract", "tts"}
          /\ ~Running(w)
          /\ Delivered(w)

\* The event loop hands the error signal of a worker to its callback.
ErrorDelivery ==
    /\ Idle
    /\ events # <<>>
    /\ Ev.sig = "error"
    /\ events' = Tail(events)

\* The worker created next for the slot of worker w, 0 if there is none.
NextOfSlot(w) ==
    LET later == {v \in WorkerIds : v > w /\ workers[v].slot = workers[w].slot}
    IN  IF later = {} THEN 0 ELSE CHOOSE v \in later : \A u \in later : v <= u

\* What C20 says of the error notifications: a failed worker is reported
\* by one dialog, shown when its error signal is delivered, and never twice.
\* A step that touches neither a worker nor the queue cannot change that.
OneNotification ==
    /\ ErrorDelivery => workers'[Ev.w].nshown = workers[Ev.w].nshown + 1
    /\ \/ UNCHANGED <<workers, events>>
       \/ \A w \in 1..Len(workers') :
             /\ workers'[w].nshown <= workers'[w].nerror
             /\ workers'[w].nerror <= 1
             /\ (workers'[w].nerror = 1 /\ \A i \in 1..Len(events') : events'[i].w # w)
                   => workers'[w].nshown = 1

\* C20 as stated: once a worker has failed, every worker created afterwards
\* is created by a trigger press, and each failed worker causes exactly one
\* error notification.
C20_NoWorkerAfterFailure ==
    [][/\ (Len(workers') > Len(workers) /\ \E w \in WorkerIds : workers[w].nerror = 1)
             => workers'[Len(workers')].parent = 0
       /\ OneNotification]_vars

\* C20 as amended: there is no automatic retry.  The callback of a failed
\* worker creates no worker and starts no wait, a failed worker has no
\* phase-two worker, the next worker of its slot, if any, is one a trigger
\* press created after the error was shown, and each failed worker causes
\* exactly one error notification.
C20_NoAutomaticRetry ==
    [][/\ ErrorDelivery => (Len(workers') = Len(workers) /\ ui'.pc = "idle")
       /\ \A w \in WorkerIds :
             (workers[w].nerror = 1 /\ Len(workers') > Len(workers))
                => /\ workers'[Len(workers')].parent # w
                   /\ (workers'[Len(workers')].slot = workers[w].slot /\ NextOfSlot(w) = 0)
                         => /\ workers'[Len(workers')].parent = 0
                            /\ workers[w].nshown = 1
       /\ OneNotification]_vars

\* A failed worker has been reported once and the user has pressed the
\* trigger of its slot again.
C20_Witness ==
    \E w \in WorkerIds :
        /\ workers[w].nerror = 1
        /\ workers[w].nshown = 1
        /\ NextOfSlot(w) # 0
        /\ workers[NextOfSlot(w)].parent = 0
        /\ Running(NextOfSlot(w))

\* The attributes a worker got from its constructor.
Settings(worker) ==
    <<worker.task_type, worker.url, worker.query, worker.content, worker.client,
      worker.model, worker.max_length>>

\* The worker just created holds the client, the model, the length, the
\* voice and the text the window has at this moment.
CapturedNow(worker) ==
    /\ worker.client = client
    /\ worker.task_type = "summarize" =>
          /\ worker.model = model_combo
          /\ worker.max_length = length_slider
          /\ worker.content = current_text'
    /\ worker.task_type = "analyze" =>
          /\ worker.model = model_combo
          /\ worker.content = current_text'
    /\ worker.task_type = "tts" => worker.model = selected_voice

\* C21: a worker is created with the client, model, length, voice and text
\* of that moment; no later step changes what it holds, whatever is done to
\* the selectors and the credential, what it sends when its operation runs
\* are the values it was created with, and the queued emission that names
\* the request stays as it is until it is delivered.
C21_SettingsCaptured ==
    [][/\ Len(workers') > Len(workers) => CapturedNow(workers'[Len(workers')])
       /\ \A w \in WorkerIds :
             /\ Settings(workers'[w]) = Settings(workers[w])
             /\ (Running(w) /\ ~workers'[w].running) =>
                   /\ Len(events') = Len(events) + 1
                   /\ LET sent == events'[Len(events')].sent
                      IN  /\ events'[Len(events')].w = w
                          /\ sent.client = workers[w].client
                          /\ sent.model = workers[w].model
                          /\ sent.max_length = workers[w].max_length
                          /\ sent.content = workers[w].content
       /\ \A i \in 1..Len(events) :
             \A j \in 1..Len(events') : events'[j].w = events[i].w => events'[j] = events[i]]_vars

\* A summarize worker is running while the model, the length and the client
\* of the window are no longer those it was created with, and a tts worker
\* is running while another voice is selected.
C21_Witness ==
    /\ \E w \in WorkerIds :
          /\ Running(w)
          /\ workers[w].task_type = "summarize"
          /\ workers[w].model # model_combo
          /\ workers[w].max_length # length_slider
          /\ workers[w].client # client
    /\ \E w \in WorkerIds :
          /\ Running(w)
          /\ workers[w].task_type = "tts"
          /\ workers[w].model # selected_voice

\* The event loop hands the markup a fetch worker returned to
\* on_website_fetched.
FetchDelivery ==
    /\ Delivering("finished", {"fetch"})
    /\ events' = Tail(events)

\* After the step the text and the title are those of page p.
DerivedFrom(p) ==
    /\ ~PageTable[p].bad
    /\ current_text' = PageTexts[p]
    /\ current_title' = PageTitles[p]

\* After the step the text and the title are both empty, as at start, or
\* both of one page.
OnePage ==
    \/ current_text' = <<>> /\ current_title' = <<>>
    \/ \E p \in PageIds : DerivedFrom(p)

C23_TriggerEnabledAgain ==
    \A slot \in Slots : (~enabled[slot]) ~> enabled[slot]

\* C24: the summary or answer the web front end has shown is the entry at
\* the end of the session ledger, also when the speech call that follows
\* the display has raised.
C24_ShownIsRecorded ==
    shown # NoResult =>
        /\ session_state.results # <<>>
        /\ session_state.results[Len(session_state.results)] = shown

\* C25: a running worker is the one self.worker_thread references, and the
\* handle is given to a new worker only when the worker it referenced has
\* left run().
C25_OnlyReferencedWorkerRuns ==
    [][/\ \A w \in 1..Len(workers') : workers'[w].running => w = worker_thread'
       /\ (worker_thread' # worker_thread /\ worker_thread # 0) => ~Running(worker_thread)]_vars

\* The page whose text the worker named by a history entry was given: the
\* page its fetch worker returned.
PageOf(entry) == workers[workers[entry.result].parent].payload.page

\* C26: the title of every history entry is the title of the page whose
\* extracted text produced the entry's result.
C26_EntryTitleOfItsPage ==
    \A i \in 1..Len(history) : history[i].title = PageTitles[PageOf(history[i])]

\* C27: the question an analyze worker holds and sends is the stripped,
\* non-empty question its trigger press validated and gave to the fetch
\* worker, whatever is done to the question box while the page is fetched.
C27_QuestionAsValidated ==
    \A w \in WorkerIds :
        workers[w].task_type = "analyze" =>
            /\ workers[w].query = workers[workers[w].parent].query
            /\ workers[w].query # <<>>
            /\ \A i \in 1..Len(events) :
                  events[i].w = w => events[i].sent.query = workers[workers[w].parent].query

\* C28: the question of the Analysis entry appended when an answer is
\* delivered is the question that was sent to the model for that answer.
C28_RecordedQuestionAsSent ==
    [][SuccessOf("analyze") =>
          /\ Len(history') = Len(history) + 1
          /\ history'[Len(history')].result = Ev.payload.by
          /\ history'[Len(history')].query = Ev.sent.query]_vars

\* C29: whenever the credential is not empty a client exists, also when the
\* key comes from the environment at start and is never edited, and no
\* summarize, analyze or tts worker is created without a client.
C29_ClientWheneverKey ==
    /\ api_key # "" => client # "none"
    /\ \A w \in WorkerIds :
          workers[w].task_type \in {"summarize", "analyze", "tts"} => workers[w].client # "none"

\* C30: the whitespace normalisation applied to its own output returns that
\* output unchanged.
C30_NormalizationIdempotent ==
    Returned("normalize_output") => call.ret = call.arg

\* The output of normalising a text with a run of three spaces and a line
\* break has been normalised again.
C30_Witness ==
    /\ Returned("normalize_output")
    /\ call.arg = <<"a", "\n", "a">>
    /\ call.ret = call.arg

====
